---- MODULE Spec2Model ----
(***************************************************************************)
(* Model of src/src/controller.c: the master side of the SIO0 controller   *)
(* and memory card bus (port select, acknowledge wait, byte exchange and   *)
(* packet exchange), together with the serial interface and the device on  *)
(* the selected port as its environment.                                   *)
(***************************************************************************)
EXTENDS Integers, Sequences, FiniteSets, TLC

(* ------------------------------ bounds -------------------------------- *)

\* Largest maxRespLength a caller passes.
MaxResp == 2

\* Longest request buffer a caller passes.
MaxReq == 2

\* Entries the receive buffer holds before a further byte is lost.
RxCap == 2

\* Largest timeout (in microseconds) of a direct waitForAcknowledge call.
MaxTimeout == 35

\* Pulses the acknowledgment line makes over a run of direct waitForAcknowledge calls.
MaxPulses == 2

(* ---------------------------- constants ------------------------------- *)

DSR_TIMEOUT == 120

\* Re-check interval of waitForAcknowledge (delayMicroseconds(10)).
POLL_DELAY == 10

ADDR_CONTROLLER == 1

ADDR_MEMORY_CARD == 129

\* What the receiver shifts in from a port with nothing plugged in.
BUS_IDLE == 255

\* Content of a response buffer the engine has not written.
STALE == 238

Ports == {0, 1}

\* Callers of the commands, when there is more than one.
Threads == {1, 2}

Addresses == {ADDR_CONTROLLER, ADDR_MEMORY_CARD}

\* The i-th byte of a caller's request: a command byte and its parameters,
\* all different and none of them the padding byte 0.
ReqByte(i) == 65 + i

\* Bytes a plugged device shifts out of its own accord (it may also echo).
DevBytes == {90}

\* The caller's response buffer is one byte larger than the largest maximum.
BufIdx == 0 .. MaxResp

Requests == {[i \in 1 .. n |-> ReqByte(i)] : n \in 0 .. MaxReq}

(* The bits of SIO_CTRL(0) the code keeps; SIO_CTRL_ACKNOWLEDGE is a       *)
(* write-only strobe and is never stored.                                  *)
SIO_CTRL_TX_ENABLE == "TX_ENABLE"

SIO_CTRL_RX_ENABLE == "RX_ENABLE"

SIO_CTRL_DSR_IRQ_ENABLE == "DSR_IRQ_ENABLE"

SIO_CTRL_DTR == "DTR"

SIO_CTRL_CS_PORT_2 == "CS_PORT_2"

CtrlBits == {SIO_CTRL_TX_ENABLE, SIO_CTRL_RX_ENABLE, SIO_CTRL_DSR_IRQ_ENABLE,
             SIO_CTRL_DTR, SIO_CTRL_CS_PORT_2}

(* ------------------------------ state --------------------------------- *)

VARIABLES
    \* serial interface, interrupt controller and device
    irq,            \* IRQ_STAT & (1 << IRQ_SIO0): the latched acknowledgment edge
    ctrl,           \* SIO_CTRL(0), the set of bits that are 1
    tx,             \* byte written to SIO_DATA(0) and not yet shifted out (<<>> or <<b>>)
    rx,             \* bytes received and not yet read from SIO_DATA(0)
    ackOwed,        \* the device is going to pulse DSR for the last byte
    plugged,        \* plugged[p]: a device answering the address sits on port p
    \* program position and the frames of the functions
    pc,
    port,           \* selectPort: argument (the last port selected)
    address, request, reqLength, reqPos, maxRespLength, respLength,
    response,       \* the caller's response buffer
    respPos,        \* offset of the response pointer in that buffer
    timeout, ack, wfaRet,      \* waitForAcknowledge: counter, result, return point
    value, received, ebRet,   \* exchangeByte: argument, result, return point
    \* history of the running call
    timeout0,       \* timeout the running waitForAcknowledge was called with
    checks,         \* flag checks made by the running waitForAcknowledge
    sawSet,         \* a check of the running waitForAcknowledge saw the flag set
    emitted,        \* pulses made by the device during the running call
    observed,       \* waitForAcknowledge calls of the running call that returned true
    late,           \* a pulse came after the wait for it had given up
    addrAck,        \* result of the address phase wait ("none" before it ends)
    writes,         \* indices of response written, in order
    sent,           \* <<byte, fromRequest>> of each exchangeByte written, in order
    devOut,         \* byte the device shifted out in each exchange
    echoed,         \* in every exchange so far the device shifted out what it got
    events,         \* select / address / exchange / deselect, in order
    \* history across calls
    staleEdge,      \* an edge was already latched when the running call began
    staleBytes,     \* bytes the receive buffer held when the running call began
    ackedPorts,     \* ports whose device acknowledged the address of a returned call
    \* the device commands
    cpc,            \* position in the running command ("none" between commands)
    gbPort,         \* getButtonPress: argument port
    loopI,          \* checkMCPpresent, sendGameID: loop counter i
    ret,            \* checkMCPpresent: ret
    cmdRespLength,  \* the command's local respLength
    cmdResponse,    \* the command's local response buffer
    buttons,        \* getButtonPress: value returned
    reads,          \* indices of response the decoding of the last exchange has read
    card,           \* sendGameID: argument card
    strLen,         \* sendGameID: strlen(str)
    gameRequest,    \* sendGameID: what the writes to request have stored, from index 0
    topWritten,     \* sendGameID: highest index of request written
    sentOn,         \* sendGameID: request bytes sent on each port
    \* the device of a command session
    script,         \* reply bytes the selected device has still to shift out
    reply,          \* reply the device chose when it was addressed
    \* callers sharing the bus
    thr,            \* thr[t]: the packets caller t has still to make and where it is
    mutex,          \* the caller holding the mutex, 0 when it is free
    wide            \* the mutex is taken before selectPort, not just before the packet

hw == <<irq, ctrl, tx, rx, ackOwed, plugged>>

epFrame == <<address, request, reqLength, reqPos, maxRespLength, respLength, response, respPos>>

wfaFrame == <<timeout, ack, wfaRet>>

ebFrame == <<value, received, ebRet>>

wfaHist == <<timeout0, checks, sawSet>>

epHist == <<addrAck, writes, sent, devOut, echoed, events>>

pulseHist == <<emitted, observed, late>>

busHist == <<staleEdge, staleBytes, ackedPorts>>

cmdFrame == <<gbPort, loopI, ret, cmdRespLength, cmdResponse, buttons, reads>>

sgFrame == <<card, strLen, gameRequest, topWritten, sentOn>>

devState == <<script, reply>>

thrState == <<thr, mutex, wide>>

\* What the engine of one packet exchange never touches.
ext == <<busHist, cpc, cmdFrame, sgFrame, devState, thrState>>

vars == <<hw, pc, port, epFrame, wfaFrame, ebFrame, wfaHist, epHist, pulseHist, ext>>

(* ----------------------------- helpers -------------------------------- *)

\* SIO_STAT(0) & SIO_STAT_TX_NOT_FULL
TxNotFull == tx = <<>>

\* SIO_STAT(0) & SIO_STAT_RX_NOT_EMPTY
RxNotEmpty == rx # <<>>

\* The port whose devices see DTR: port 2 of the console when the bit is set.
ActivePort == IF SIO_CTRL_CS_PORT_2 \in ctrl THEN 1 ELSE 0

\* A further byte arriving in a full receive buffer is lost or replaces the
\* newest entry; the source does not say which.
RxPush(q, b) ==
    IF Len(q) < RxCap THEN {Append(q, b)}
    ELSE {q, [q EXCEPT ![Len(q)] = b]}

FreshResponse == [i \in BufIdx |-> STALE]

(* ------------------------------- Init --------------------------------- *)

(* The state initControllerBus leaves: the interface reset and enabled,   *)
(* nothing in flight. An edge may already be latched.                      *)
InitState ==
    /\ irq \in BOOLEAN
    /\ ctrl = {SIO_CTRL_TX_ENABLE, SIO_CTRL_RX_ENABLE, SIO_CTRL_DSR_IRQ_ENABLE}
    /\ tx = <<>>
    /\ rx = <<>>
    /\ ackOwed = FALSE
    /\ plugged \in [Ports -> BOOLEAN]
    /\ pc = "idle"
    /\ port = 0
    /\ address = ADDR_CONTROLLER
    /\ request = <<>>
    /\ reqLength = 0
    /\ reqPos = 0
    /\ maxRespLength = 0
    /\ respLength = 0
    /\ response = FreshResponse
    /\ respPos = 0
    /\ timeout = 0
    /\ ack = FALSE
    /\ wfaRet = "idle"
    /\ value = 0
    /\ received = 0
    /\ ebRet = "idle"
    /\ timeout0 = 0
    /\ checks = 0
    /\ sawSet = FALSE
    /\ emitted = 0
    /\ observed = 0
    /\ late = FALSE
    /\ addrAck = "none"
    /\ writes = <<>>
    /\ sent = <<>>
    /\ devOut = <<>>
    /\ echoed = TRUE
    /\ events = <<>>
    /\ staleEdge = FALSE
    /\ staleBytes = 0
    /\ ackedPorts = {}
    /\ cpc = "none"
    /\ gbPort = 0
    /\ loopI = 0
    /\ ret = 0
    /\ cmdRespLength = 0
    /\ cmdResponse = <<>>
    /\ buttons = 0
    /\ reads = {}
    /\ card = 0
    /\ strLen = 0
    /\ gameRequest = <<>>
    /\ topWritten = 0
    /\ sentOn = [p \in Ports |-> 0]
    /\ script = <<>>
    /\ reply = <<>>
    /\ thr = [t \in Threads |-> [job |-> <<>>, at |-> "idle"]]
    /\ mutex = 0

Init == InitState /\ wide = FALSE

(* --------------------- serial interface and device -------------------- *)

\* The device on the active port takes part in a transfer only while DTR is
\* asserted on its port.
Selected == SIO_CTRL_DTR \in ctrl /\ plugged[ActivePort]

(* The interface shifts the pending byte out and one byte in. A selected   *)
(* device answers with a byte of its own or with the byte it is receiving, *)
(* and decides whether it will acknowledge with a DSR pulse.               *)
Transfer ==
    /\ tx # <<>>
    /\ {SIO_CTRL_TX_ENABLE, SIO_CTRL_RX_ENABLE} \subseteq ctrl
    /\ \E b \in (IF Selected THEN DevBytes \cup {tx[1]} ELSE {BUS_IDLE}),
          a \in (IF Selected THEN BOOLEAN ELSE {FALSE}) :
          /\ rx' \in RxPush(rx, b)
          /\ ackOwed' = a
          /\ IF pc = "eb_wait_rx"
             THEN /\ devOut' = Append(devOut, b)
                  /\ echoed' = (echoed /\ b = tx[1])
             ELSE UNCHANGED <<devOut, echoed>>
    /\ tx' = <<>>
    /\ UNCHANGED <<irq, ctrl, plugged, pc, port, epFrame, wfaFrame, ebFrame,
                   wfaHist, addrAck, writes, sent, events, emitted, observed, late>>
    /\ UNCHANGED ext

\* The wait that follows the last byte has made its last check of the flag.
WindowClosed ==
    \/ pc = "wfa" /\ timeout <= 0
    \/ pc \in {"ep_addr_ret", "ep_loop_ret"} /\ ~ack
    \/ pc = "ep_release"

(* The device pulses DSR for the byte it received; the pulse is latched in *)
(* IRQ_STAT when the interface forwards DSR to the interrupt controller.   *)
Pulse ==
    /\ ackOwed
    /\ ackOwed' = FALSE
    /\ irq' = (irq \/ SIO_CTRL_DSR_IRQ_ENABLE \in ctrl)
    /\ emitted' = emitted + 1
    /\ late' = (late \/ WindowClosed)
    /\ UNCHANGED <<ctrl, tx, rx, plugged, pc, port, epFrame, wfaFrame, ebFrame,
                   wfaHist, epHist, observed>>
    /\ UNCHANGED ext

(* ----------------------------- selectPort ----------------------------- *)

\* The caller's argument becomes the frame of selectPort.
StartSelectPort(p) ==
    /\ port' = p
    /\ pc' = "sp"
    /\ UNCHANGED <<hw, epFrame, wfaFrame, ebFrame, wfaHist, epHist, pulseHist>>

CallSelectPort(p) ==
    /\ pc = "idle"
    /\ StartSelectPort(p)
    /\ UNCHANGED ext

\* Faulty variant: the register is assigned instead of or-ed / and-ed.
SelectPort_Assign ==
    /\ pc = "sp"
    /\ ctrl' = IF port # 0 THEN {SIO_CTRL_CS_PORT_2} ELSE {}
    /\ pc' = "idle"
    /\ UNCHANGED <<irq, tx, rx, ackOwed, plugged, port, epFrame, wfaFrame, ebFrame,
                   wfaHist, epHist, pulseHist>>
    /\ UNCHANGED ext

SelectPort ==
    /\ pc = "sp"
    /\ ctrl' = IF port # 0 THEN ctrl \cup {SIO_CTRL_CS_PORT_2}
                           ELSE ctrl \ {SIO_CTRL_CS_PORT_2}
    /\ pc' = "idle"
    /\ UNCHANGED <<irq, tx, rx, ackOwed, plugged, port, epFrame, wfaFrame, ebFrame,
                   wfaHist, epHist, pulseHist>>
    /\ UNCHANGED ext

(* ------------------------- waitForAcknowledge ------------------------- *)

\* The frame of a waitForAcknowledge(t) call that returns to pc value back.
EnterWait(t, back) ==
    /\ timeout' = t
    /\ wfaRet' = back
    /\ pc' = "wfa"
    /\ timeout0' = t
    /\ checks' = 0
    /\ sawSet' = FALSE
    /\ UNCHANGED ack

\* The caller has read the result: the frame of waitForAcknowledge is gone.
LeaveWait ==
    /\ timeout' = 0
    /\ wfaRet' = "idle"
    /\ ack' = FALSE
    /\ timeout0' = 0
    /\ checks' = 0
    /\ sawSet' = FALSE

\* Faulty variant: returns true without resetting the interrupt flag.
WfaAck_NoClear ==
    /\ pc = "wfa"
    /\ timeout > 0
    /\ irq
    /\ ack' = TRUE
    /\ pc' = wfaRet
    /\ checks' = checks + 1
    /\ sawSet' = TRUE
    /\ observed' = observed + 1
    /\ UNCHANGED <<hw, port, epFrame, timeout, wfaRet,
                   ebFrame, timeout0, epHist, emitted, late>>
    /\ UNCHANGED ext

\* timeout > 0 and the flag is set: reset it and return true.
WfaAck ==
    /\ pc = "wfa"
    /\ timeout > 0
    /\ irq
    /\ irq' = FALSE
    /\ ack' = TRUE
    /\ pc' = wfaRet
    /\ checks' = checks + 1
    /\ sawSet' = TRUE
    /\ observed' = observed + 1
    /\ UNCHANGED <<ctrl, tx, rx, ackOwed, plugged, port, epFrame, timeout, wfaRet,
                   ebFrame, timeout0, epHist, emitted, late>>
    /\ UNCHANGED ext

\* Faulty variant: the counter is decremented by 1 for a delay of 10.
WfaDelay_Decrement1 ==
    /\ pc = "wfa"
    /\ timeout > 0
    /\ ~irq
    /\ timeout' = timeout - 1
    /\ checks' = checks + 1
    /\ UNCHANGED <<hw, pc, port, epFrame, ack, wfaRet, ebFrame, timeout0, sawSet,
                   epHist, pulseHist>>
    /\ UNCHANGED ext

\* timeout > 0 and the flag is clear: delayMicroseconds(10), timeout -= 10.
WfaDelay ==
    /\ pc = "wfa"
    /\ timeout > 0
    /\ ~irq
    /\ timeout' = timeout - POLL_DELAY
    /\ checks' = checks + 1
    /\ UNCHANGED <<hw, pc, port, epFrame, ack, wfaRet, ebFrame, timeout0, sawSet,
                   epHist, pulseHist>>
    /\ UNCHANGED ext

\* timeout <= 0: return false.
WfaTimeout ==
    /\ pc = "wfa"
    /\ timeout <= 0
    /\ ack' = FALSE
    /\ pc' = wfaRet
    /\ UNCHANGED <<hw, port, epFrame, timeout, wfaRet, ebFrame, wfaHist, epHist,
                   pulseHist>>
    /\ UNCHANGED ext

(* ---------------------------- exchangeByte ---------------------------- *)

\* Spin until TX_NOT_FULL, then SIO_DATA(0) = value.
EbWrite ==
    /\ pc = "eb_wait_tx"
    /\ TxNotFull
    /\ tx' = <<value>>
    /\ pc' = "eb_wait_rx"
    /\ sent' = Append(sent, <<value, reqLength > 0>>)
    /\ events' = Append(events, "exchange")
    /\ UNCHANGED <<irq, ctrl, rx, ackOwed, plugged, port, epFrame, wfaFrame, ebFrame,
                   wfaHist, addrAck, writes, devOut, echoed, pulseHist>>
    /\ UNCHANGED ext

\* Spin until RX_NOT_EMPTY, then return SIO_DATA(0).
EbRead ==
    /\ pc = "eb_wait_rx"
    /\ RxNotEmpty
    /\ received' = Head(rx)
    /\ rx' = Tail(rx)
    /\ pc' = ebRet
    /\ UNCHANGED <<irq, ctrl, tx, ackOwed, plugged, port, epFrame, wfaFrame, value,
                   ebRet, wfaHist, epHist, pulseHist>>
    /\ UNCHANGED ext

(* --------------------------- exchangePacket --------------------------- *)

\* The caller's arguments become the frame of exchangePacket; buf is the
\* content of the response buffer it passes.
StartExchangePacket(a, r, m, buf) ==
    /\ address' = a
    /\ request' = r
    /\ reqLength' = Len(r)
    /\ reqPos' = 0
    /\ maxRespLength' = m
    /\ respLength' = 0
    /\ response' = buf
    /\ respPos' = 0
    /\ pc' = "ep_assert"
    /\ emitted' = 0
    /\ observed' = 0
    /\ late' = FALSE
    /\ addrAck' = "none"
    /\ writes' = <<>>
    /\ sent' = <<>>
    /\ devOut' = <<>>
    /\ echoed' = TRUE
    /\ events' = <<>>
    /\ UNCHANGED <<hw, port, wfaFrame, ebFrame, wfaHist>>

CallExchangePacket(a, r, m) ==
    /\ pc = "idle"
    /\ StartExchangePacket(a, r, m, FreshResponse)
    /\ UNCHANGED ext

\* Faulty variant: the interrupt flag is not reset before DTR is asserted.
EpAssert_KeepEdge ==
    /\ pc = "ep_assert"
    /\ ctrl' = ctrl \cup {SIO_CTRL_DTR}
    /\ events' = Append(events, "select")
    /\ pc' = "ep_address"
    /\ UNCHANGED <<irq, tx, rx, ackOwed, plugged, port, epFrame, wfaFrame, ebFrame,
                   wfaHist, addrAck, writes, sent, devOut, echoed, pulseHist>>
    /\ UNCHANGED ext

\* Lines 124-127: reset the interrupt flag, assert DTR.
EpAssert ==
    /\ pc = "ep_assert"
    /\ irq' = FALSE
    /\ ctrl' = ctrl \cup {SIO_CTRL_DTR}
    /\ events' = Append(events, "select")
    /\ pc' = "ep_address"
    /\ UNCHANGED <<tx, rx, ackOwed, plugged, port, epFrame, wfaFrame, ebFrame,
                   wfaHist, addrAck, writes, sent, devOut, echoed, pulseHist>>
    /\ UNCHANGED ext

\* Lines 129-137: respLength = 0, SIO_DATA(0) = address, waitForAcknowledge.
EpAddress ==
    /\ pc = "ep_address"
    /\ respLength' = 0
    /\ tx' = <<address>>
    /\ events' = Append(events, "address")
    /\ EnterWait(DSR_TIMEOUT, "ep_addr_ret")
    /\ UNCHANGED <<irq, ctrl, rx, ackOwed, plugged, port, address, request, reqLength,
                   reqPos, maxRespLength, response, respPos, ebFrame,
                   addrAck, writes, sent, devOut, echoed, pulseHist>>
    /\ UNCHANGED ext

\* Faulty variant: the transfer is entered when the wait returned false.
EpAddrRet_Inverted ==
    /\ pc = "ep_addr_ret"
    /\ addrAck' = IF ack THEN "acked" ELSE "timeout"
    /\ pc' = IF ack THEN "ep_release" ELSE "ep_drain"
    /\ LeaveWait
    /\ UNCHANGED <<hw, port, epFrame, ebFrame,
                   writes, sent, devOut, echoed, events, pulseHist>>
    /\ UNCHANGED ext

\* Faulty variant: the transfer is entered whatever the wait returned.
EpAddrRet_IgnoreAck ==
    /\ pc = "ep_addr_ret"
    /\ addrAck' = IF ack THEN "acked" ELSE "timeout"
    /\ pc' = "ep_drain"
    /\ LeaveWait
    /\ UNCHANGED <<hw, port, epFrame, ebFrame,
                   writes, sent, devOut, echoed, events, pulseHist>>
    /\ UNCHANGED ext

\* Line 137: enter the transfer only if the address was acknowledged.
EpAddrRet ==
    /\ pc = "ep_addr_ret"
    /\ addrAck' = IF ack THEN "acked" ELSE "timeout"
    /\ pc' = IF ack THEN "ep_drain" ELSE "ep_release"
    /\ LeaveWait
    /\ UNCHANGED <<hw, port, epFrame, ebFrame,
                   writes, sent, devOut, echoed, events, pulseHist>>
    /\ UNCHANGED ext

\* Faulty variant: a single read in place of the loop.
EpDrain_One ==
    /\ pc = "ep_drain"
    /\ rx' = IF RxNotEmpty THEN Tail(rx) ELSE rx
    /\ pc' = "ep_loop"
    /\ UNCHANGED <<irq, ctrl, tx, ackOwed, plugged, port, epFrame, wfaFrame, ebFrame,
                   wfaHist, epHist, pulseHist>>
    /\ UNCHANGED ext

\* Faulty variant: the receive buffer is not emptied before the transfer.
EpDrain_Skip ==
    /\ pc = "ep_drain"
    /\ pc' = "ep_loop"
    /\ UNCHANGED <<hw, port, epFrame, wfaFrame, ebFrame, wfaHist, epHist, pulseHist>>
    /\ UNCHANGED ext

\* Lines 138-139: empty the receive buffer.
EpDrain ==
    /\ pc = "ep_drain"
    /\ IF RxNotEmpty
       THEN rx' = Tail(rx) /\ UNCHANGED pc
       ELSE pc' = "ep_loop" /\ UNCHANGED rx
    /\ UNCHANGED <<irq, ctrl, tx, ackOwed, plugged, port, epFrame, wfaFrame, ebFrame,
                   wfaHist, epHist, pulseHist>>
    /\ UNCHANGED ext

\* Faulty variant: the loop test is respLength <= maxRespLength.
EpLoop_OffByOne ==
    /\ pc = "ep_loop"
    /\ IF respLength <= maxRespLength
       THEN /\ value' = IF reqLength > 0 THEN request[reqPos + 1] ELSE 0
            /\ ebRet' = "ep_store"
            /\ pc' = "eb_wait_tx"
       ELSE /\ pc' = "ep_release"
            /\ UNCHANGED <<value, ebRet>>
    /\ UNCHANGED <<hw, port, epFrame, wfaFrame, received, wfaHist, epHist, pulseHist>>
    /\ UNCHANGED ext

\* Faulty variant: the padding byte is 0xFF.
EpLoop_PadFF ==
    /\ pc = "ep_loop"
    /\ IF respLength < maxRespLength
       THEN /\ value' = IF reqLength > 0 THEN request[reqPos + 1] ELSE 255
            /\ ebRet' = "ep_store"
            /\ pc' = "eb_wait_tx"
       ELSE /\ pc' = "ep_release"
            /\ UNCHANGED <<value, ebRet>>
    /\ UNCHANGED <<hw, port, epFrame, wfaFrame, received, wfaHist, epHist, pulseHist>>
    /\ UNCHANGED ext

\* Lines 144-150: loop test and the argument of the next exchangeByte.
EpLoop ==
    /\ pc = "ep_loop"
    /\ IF respLength < maxRespLength
       THEN /\ value' = IF reqLength > 0 THEN request[reqPos + 1] ELSE 0
            /\ ebRet' = "ep_store"
            /\ pc' = "eb_wait_tx"
       ELSE /\ pc' = "ep_release"
            /\ UNCHANGED <<value, ebRet>>
    /\ UNCHANGED <<hw, port, epFrame, wfaFrame, received, wfaHist, epHist, pulseHist>>
    /\ UNCHANGED ext

\* Lines 146-157: store the byte received, advance, wait for the next pulse.
EpStore ==
    /\ pc = "ep_store"
    /\ response' = [response EXCEPT ![respPos] = received]
    /\ respPos' = respPos + 1
    /\ writes' = Append(writes, respPos)
    /\ IF reqLength > 0
       THEN reqPos' = reqPos + 1 /\ reqLength' = reqLength - 1
       ELSE UNCHANGED <<reqPos, reqLength>>
    /\ respLength' = respLength + 1
    /\ value' = 0
    /\ received' = 0
    /\ ebRet' = "idle"
    /\ EnterWait(DSR_TIMEOUT, "ep_loop_ret")
    /\ UNCHANGED <<hw, port, address, request, maxRespLength,
                   addrAck, sent, devOut, echoed, events, pulseHist>>
    /\ UNCHANGED ext

\* Faulty variant: a missing pulse is waited for again.
EpLoopRet_Retry ==
    /\ pc = "ep_loop_ret"
    /\ IF ack
       THEN pc' = "ep_loop" /\ LeaveWait
       ELSE EnterWait(DSR_TIMEOUT, "ep_loop_ret")
    /\ UNCHANGED <<hw, port, epFrame, ebFrame, epHist, pulseHist>>
    /\ UNCHANGED ext

\* Faulty variant: a missing pulse does not end the transfer.
EpLoopRet_NoBreak ==
    /\ pc = "ep_loop_ret"
    /\ pc' = "ep_loop"
    /\ LeaveWait
    /\ UNCHANGED <<hw, port, epFrame, ebFrame, epHist, pulseHist>>
    /\ UNCHANGED ext

\* Faulty variant: the byte that was not acknowledged is not counted.
EpLoopRet_DropLast ==
    /\ pc = "ep_loop_ret"
    /\ pc' = IF ack THEN "ep_loop" ELSE "ep_release"
    /\ respLength' = IF ack THEN respLength ELSE respLength - 1
    /\ LeaveWait
    /\ UNCHANGED <<hw, port, address, request, reqLength, reqPos, maxRespLength,
                   response, respPos, ebFrame, epHist, pulseHist>>
    /\ UNCHANGED ext

\* Lines 157-158: no further pulse ends the transfer.
EpLoopRet ==
    /\ pc = "ep_loop_ret"
    /\ pc' = IF ack THEN "ep_loop" ELSE "ep_release"
    /\ LeaveWait
    /\ UNCHANGED <<hw, port, epFrame, ebFrame, epHist, pulseHist>>
    /\ UNCHANGED ext

\* Faulty variant: DTR is left asserted.
EpRelease_KeepDTR ==
    /\ pc = "ep_release"
    /\ tx = <<>>
    /\ ackOwed' = FALSE
    /\ events' = Append(events, "deselect")
    /\ pc' = "ep_done"
    /\ UNCHANGED <<irq, ctrl, tx, rx, plugged, port, epFrame, wfaFrame, ebFrame, wfaHist,
                   addrAck, writes, sent, devOut, echoed, pulseHist>>
    /\ UNCHANGED ext

(* Lines 163-164: after DTR_DELAY release DTR; the device goes idle. The   *)
(* byte time at 250000 bps is shorter than DTR_DELAY, so no byte is still  *)
(* being shifted when the delay ends.                                      *)
EpRelease ==
    /\ pc = "ep_release"
    /\ tx = <<>>
    /\ ctrl' = ctrl \ {SIO_CTRL_DTR}
    /\ ackOwed' = FALSE
    /\ events' = Append(events, "deselect")
    /\ pc' = "ep_done"
    /\ UNCHANGED <<irq, tx, rx, plugged, port, epFrame, wfaFrame, ebFrame, wfaHist,
                   addrAck, writes, sent, devOut, echoed, pulseHist>>
    /\ UNCHANGED ext

\* The frame and the history of a call that has returned are gone.
ClearExchange ==
    /\ address' = ADDR_CONTROLLER
    /\ request' = <<>>
    /\ reqLength' = 0
    /\ reqPos' = 0
    /\ maxRespLength' = 0
    /\ respLength' = 0
    /\ response' = FreshResponse
    /\ respPos' = 0
    /\ emitted' = 0
    /\ observed' = 0
    /\ late' = FALSE
    /\ addrAck' = "none"
    /\ writes' = <<>>
    /\ sent' = <<>>
    /\ devOut' = <<>>
    /\ echoed' = TRUE
    /\ events' = <<>>
    /\ UNCHANGED <<hw, port, wfaFrame, ebFrame, wfaHist>>

\* Lines 165-166: return respLength; the caller has taken the result.
EpReturn ==
    /\ pc = "ep_done"
    /\ pc' = "idle"
    /\ ClearExchange
    /\ UNCHANGED ext

(* --------------------------- specification ---------------------------- *)

Next ==
    \/ \E p \in Ports : CallSelectPort(p)
    \/ SelectPort
    \/ \E a \in Addresses, r \in Requests, m \in 0 .. MaxResp : CallExchangePacket(a, r, m)
    \/ EpAssert
    \/ EpAddress
    \/ EpAddrRet
    \/ EpDrain
    \/ EpLoop
    \/ EpStore
    \/ EpLoopRet
    \/ EpRelease
    \/ EpReturn
    \/ WfaAck
    \/ WfaDelay
    \/ WfaTimeout
    \/ EbWrite
    \/ EbRead
    \/ Transfer
    \/ Pulse

Spec == Init /\ [][Next]_vars

\* The steps the processor takes inside exchangePacket.
EngineStep ==
    \/ EpAssert
    \/ EpAddress
    \/ EpAddrRet
    \/ EpDrain
    \/ EpLoop
    \/ EpStore
    \/ EpLoopRet
    \/ EpRelease
    \/ WfaAck
    \/ WfaDelay
    \/ WfaTimeout
    \/ EbWrite
    \/ EbRead

(* The processor keeps executing, and the interface shifts out every byte  *)
(* written to it, which raises TX_NOT_FULL and RX_NOT_EMPTY. Nothing is    *)
(* assumed of the acknowledgment line.                                     *)
FairSpec == Spec /\ WF_vars(EngineStep) /\ WF_vars(Transfer)

(* ------------- waitForAcknowledge called on its own ------------------- *)

\* Timeouts a direct caller passes, zero and negative ones included.
Timeouts == (0 - POLL_DELAY) .. MaxTimeout

CallWaitForAcknowledge(t) ==
    /\ pc = "idle"
    /\ EnterWait(t, "wait_ret")
    /\ UNCHANGED <<hw, port, epFrame, ebFrame, epHist, pulseHist>>
    /\ UNCHANGED ext

WaitReturn ==
    /\ pc = "wait_ret"
    /\ pc' = "idle"
    /\ LeaveWait
    /\ UNCHANGED <<hw, port, epFrame, ebFrame, epHist, pulseHist>>
    /\ UNCHANGED ext

\* The acknowledgment line pulses whenever it likes; the edge is latched.
AckSignal ==
    /\ emitted < MaxPulses
    /\ emitted' = emitted + 1
    /\ irq' = (irq \/ SIO_CTRL_DSR_IRQ_ENABLE \in ctrl)
    /\ UNCHANGED <<ctrl, tx, rx, ackOwed, plugged, pc, port, epFrame, wfaFrame, ebFrame,
                   wfaHist, epHist, observed, late>>
    /\ UNCHANGED ext

\* No edge is latched when the interface has just been reset.
InitWait == Init /\ ~irq

NextWait ==
    \/ \E t \in Timeouts : CallWaitForAcknowledge(t)
    \/ WfaAck
    \/ WfaDelay
    \/ WfaTimeout
    \/ WaitReturn
    \/ AckSignal

SpecWait == InitWait /\ [][NextWait]_vars

\* The processor keeps executing the loop of waitForAcknowledge.
FairSpecWait == SpecWait /\ WF_vars(WfaAck \/ WfaDelay \/ WfaTimeout)

(* ---------------------- sendPacketNoAcknowledge ---------------------- *)

\* delayMicroseconds(BYTE_DELAY) has run: the byte written before it has
\* been shifted out and its reply shifted in.
ByteDelayElapsed == tx = <<>>

\* The caller's arguments become the frame of sendPacketNoAcknowledge.
StartSendPacket(a, r) ==
    /\ address' = a
    /\ request' = r
    /\ reqLength' = Len(r)
    /\ reqPos' = 0
    /\ pc' = "snp_assert"
    /\ emitted' = 0
    /\ observed' = 0
    /\ late' = FALSE
    /\ addrAck' = "none"
    /\ writes' = <<>>
    /\ sent' = <<>>
    /\ devOut' = <<>>
    /\ echoed' = TRUE
    /\ events' = <<>>
    /\ UNCHANGED <<hw, port, maxRespLength, respLength, response, respPos, wfaFrame,
                   ebFrame, wfaHist>>

\* Lines 204-206: reset the interrupt flag, assert DTR.
SnpAssert ==
    /\ pc = "snp_assert"
    /\ irq' = FALSE
    /\ ctrl' = ctrl \cup {SIO_CTRL_DTR}
    /\ events' = Append(events, "select")
    /\ pc' = "snp_address"
    /\ UNCHANGED <<tx, rx, ackOwed, plugged, port, epFrame, wfaFrame, ebFrame,
                   wfaHist, addrAck, writes, sent, devOut, echoed, pulseHist>>
    /\ UNCHANGED ext

\* Line 208: SIO_DATA(0) = address.
SnpAddress ==
    /\ pc = "snp_address"
    /\ tx' = <<address>>
    /\ events' = Append(events, "address")
    /\ pc' = "snp_drain"
    /\ UNCHANGED <<irq, ctrl, rx, ackOwed, plugged, port, epFrame, wfaFrame, ebFrame,
                   wfaHist, addrAck, writes, sent, devOut, echoed, pulseHist>>
    /\ UNCHANGED ext

\* Lines 209-211: after BYTE_DELAY read SIO_DATA(0) until the buffer is empty.
SnpDrain ==
    /\ pc = "snp_drain"
    /\ ByteDelayElapsed
    /\ IF RxNotEmpty
       THEN rx' = Tail(rx) /\ UNCHANGED <<pc, events>>
       ELSE pc' = "snp_loop" /\ events' = Append(events, "drain") /\ UNCHANGED rx
    /\ UNCHANGED <<irq, ctrl, tx, ackOwed, plugged, port, epFrame, wfaFrame, ebFrame,
                   wfaHist, addrAck, writes, sent, devOut, echoed, pulseHist>>
    /\ UNCHANGED ext

\* Lines 213-214: while reqLength > 0, exchangeByte(*request).
SnpLoop ==
    /\ pc = "snp_loop"
    /\ IF reqLength > 0
       THEN /\ value' = request[reqPos + 1]
            /\ ebRet' = "snp_next"
            /\ pc' = "eb_wait_tx"
       ELSE /\ pc' = "snp_release"
            /\ UNCHANGED <<value, ebRet>>
    /\ UNCHANGED <<hw, port, epFrame, wfaFrame, received, wfaHist, epHist, pulseHist>>
    /\ UNCHANGED ext

\* Faulty variant: the request pointer is not advanced.
SnpNext_KeepPointer ==
    /\ pc = "snp_next"
    /\ reqLength' = reqLength - 1
    /\ value' = 0
    /\ received' = 0
    /\ ebRet' = "idle"
    /\ pc' = "snp_loop"
    /\ UNCHANGED <<hw, port, address, request, reqPos, maxRespLength, respLength, response,
                   respPos, wfaFrame, wfaHist, epHist, pulseHist>>
    /\ UNCHANGED ext

\* Lines 213-215: the result is dropped, request++, BYTE_DELAY, reqLength--.
SnpNext ==
    /\ pc = "snp_next"
    /\ reqPos' = reqPos + 1
    /\ reqLength' = reqLength - 1
    /\ value' = 0
    /\ received' = 0
    /\ ebRet' = "idle"
    /\ pc' = "snp_loop"
    /\ UNCHANGED <<hw, port, address, request, maxRespLength, respLength, response,
                   respPos, wfaFrame, wfaHist, epHist, pulseHist>>
    /\ UNCHANGED ext

\* Lines 218-219: after DTR_DELAY release DTR; the device goes idle.
SnpRelease ==
    /\ pc = "snp_release"
    /\ tx = <<>>
    /\ ctrl' = ctrl \ {SIO_CTRL_DTR}
    /\ ackOwed' = FALSE
    /\ events' = Append(events, "deselect")
    /\ pc' = "snp_done"
    /\ UNCHANGED <<irq, tx, rx, plugged, port, epFrame, wfaFrame, ebFrame, wfaHist,
                   addrAck, writes, sent, devOut, echoed, pulseHist>>
    /\ UNCHANGED ext

(* ------- selectPort, exchangePacket and sendPacketNoAcknowledge ------- *)
(* ---------------- called one after the other on one bus --------------- *)

\* The request of the exchangePacket calls on the shared bus: one command byte.
BusRequest == <<ReqByte(1)>>

BusCallExchangePacket(a, r, m) ==
    /\ pc = "idle"
    /\ StartExchangePacket(a, r, m, FreshResponse)
    /\ staleEdge' = irq
    /\ staleBytes' = Len(rx)
    /\ UNCHANGED ackedPorts
    /\ UNCHANGED <<cpc, cmdFrame, sgFrame, devState, thrState>>

\* Lines 165-166: return respLength.
BusEpReturn ==
    /\ pc = "ep_done"
    /\ pc' = "idle"
    /\ ClearExchange
    /\ ackedPorts' = IF addrAck = "acked" THEN ackedPorts \cup {ActivePort} ELSE ackedPorts
    /\ staleEdge' = FALSE
    /\ staleBytes' = 0
    /\ UNCHANGED <<cpc, cmdFrame, sgFrame, devState, thrState>>

CallSendPacketNoAcknowledge(a, r) ==
    /\ pc = "idle"
    /\ StartSendPacket(a, r)
    /\ staleEdge' = irq
    /\ staleBytes' = Len(rx)
    /\ UNCHANGED ackedPorts
    /\ UNCHANGED <<cpc, cmdFrame, sgFrame, devState, thrState>>

\* Line 220: sendPacketNoAcknowledge returns nothing.
SnpReturn ==
    /\ pc = "snp_done"
    /\ pc' = "idle"
    /\ ClearExchange
    /\ staleEdge' = FALSE
    /\ staleBytes' = 0
    /\ UNCHANGED ackedPorts
    /\ UNCHANGED <<cpc, cmdFrame, sgFrame, devState, thrState>>

NextBus ==
    \/ \E p \in Ports : CallSelectPort(p)
    \/ SelectPort
    \/ \E a \in Addresses, m \in 0 .. MaxResp : BusCallExchangePacket(a, BusRequest, m)
    \/ EpAssert
    \/ EpAddress
    \/ EpAddrRet
    \/ EpDrain
    \/ EpLoop
    \/ EpStore
    \/ EpLoopRet
    \/ EpRelease
    \/ BusEpReturn
    \/ \E a \in Addresses, r \in Requests : CallSendPacketNoAcknowledge(a, r)
    \/ SnpAssert
    \/ SnpAddress
    \/ SnpDrain
    \/ SnpLoop
    \/ SnpNext
    \/ SnpRelease
    \/ SnpReturn
    \/ WfaAck
    \/ WfaDelay
    \/ WfaTimeout
    \/ EbWrite
    \/ EbRead
    \/ Transfer
    \/ Pulse

SpecBus == Init /\ [][NextBus]_vars

(* -------------------------- device commands --------------------------- *)

CMD_POLL == 66

CMD_GAME_ID_PING == 32

\* response[1] of a controller that answers the poll (0x5A).
PAD_MARKER == 90

\* response[2] and response[3] of a card that answers the ping (0x27, 0xFF).
MCP_MARKER == 39

MCP_MARKER_END == 255

\* sizeof(response) in getButtonPress.
RESPONSE_SIZE == 32

\* sizeof(request) and sizeof(response) in checkMCPpresent.
PING_SIZE == 5

\* Width of the integers the decoding works on.
WordBits == 16

PollRequest == <<CMD_POLL, 0, 0, 0>>

PingRequest == <<CMD_GAME_ID_PING, 0, 0, 0, 0>>

\* A controller that acknowledges exactly four bytes.
Pad4Reply == <<255, PAD_MARKER, 18, 237>>

\* Replies of the controllers: the pad above, one with another marker, one
\* that stops after three bytes, and one with more bytes than the buffer.
PadReplies ==
    {Pad4Reply,
     <<255, 65, 18, 237>>,
     <<255, PAD_MARKER, 18>>,
     [k \in 1 .. RESPONSE_SIZE + 2 |-> IF k = 1 THEN 255 ELSE IF k = 2 THEN PAD_MARKER ELSE k]}

\* Replies of the cards: one that knows the ping, one that stops at the
\* unknown command, one that answers five other bytes, one that sends more.
CardReplies ==
    {<<255, 0, MCP_MARKER, MCP_MARKER_END, 0>>,
     <<255, 8>>,
     <<255, 0, 0, 0, 0>>,
     <<255, 0, MCP_MARKER, MCP_MARKER_END, 0, 0>>}

Replies(a) == IF a = ADDR_CONTROLLER THEN PadReplies ELSE CardReplies

\* What response[32] of getButtonPress holds before the exchange: nothing the
\* function wrote, possibly the reply an earlier call left on the stack.
StackBuffers ==
    {[k \in 0 .. RESPONSE_SIZE - 1 |-> STALE],
     [k \in 0 .. RESPONSE_SIZE - 1 |-> IF k < Len(Pad4Reply) THEN Pad4Reply[k + 1] ELSE STALE]}

Bit(x, k) == (x \div (2 ^ k)) % 2

RECURSIVE OrBits(_, _, _)
\* a | b on WordBits bits, from bit k up.
OrBits(a, b, k) ==
    IF k = WordBits THEN 0
    ELSE (IF Bit(a, k) = 1 \/ Bit(b, k) = 1 THEN 2 ^ k ELSE 0) + OrBits(a, b, k + 1)

RECURSIVE XorBits(_, _, _)
\* a ^ b on WordBits bits, from bit k up.
XorBits(a, b, k) ==
    IF k = WordBits THEN 0
    ELSE (IF Bit(a, k) # Bit(b, k) THEN 2 ^ k ELSE 0) + XorBits(a, b, k + 1)

(* The device of a command session: when addressed it settles on the reply *)
(* it is going to give, shifts it out byte by byte and pulses DSR for each *)
(* byte received while it has a byte left to send.                         *)
DevTransfer ==
    /\ tx # <<>>
    /\ {SIO_CTRL_TX_ENABLE, SIO_CTRL_RX_ENABLE} \subseteq ctrl
    /\ IF ~Selected
       THEN /\ rx' \in RxPush(rx, BUS_IDLE)
            /\ ackOwed' = FALSE
            /\ script' = <<>>
            /\ reply' = IF sent = <<>> THEN <<>> ELSE reply
       ELSE IF sent = <<>>
       THEN \E r \in Replies(tx[1]) \cup {<<>>} :
               /\ rx' \in RxPush(rx, BUS_IDLE)
               /\ ackOwed' = (r # <<>>)
               /\ script' = r
               /\ reply' = r
       ELSE IF script = <<>>
       THEN /\ rx' \in RxPush(rx, BUS_IDLE)
            /\ ackOwed' = FALSE
            /\ UNCHANGED <<script, reply>>
       ELSE /\ rx' \in RxPush(rx, Head(script))
            /\ ackOwed' = (Tail(script) # <<>>)
            /\ script' = Tail(script)
            /\ UNCHANGED reply
    /\ tx' = <<>>
    /\ UNCHANGED <<irq, ctrl, plugged, pc, port, epFrame, wfaFrame, ebFrame,
                   wfaHist, epHist, pulseHist, busHist, cpc, cmdFrame, sgFrame, thrState>>

\* Lines 165-166 seen from a command: respLength is returned and the
\* response is in the buffer the command passed.
CmdEpReturn ==
    /\ pc = "ep_done"
    /\ cpc # "none"
    /\ pc' = "idle"
    /\ cmdRespLength' = respLength
    /\ cmdResponse' = response
    /\ script' = <<>>
    /\ ClearExchange
    /\ UNCHANGED <<busHist, cpc, gbPort, loopI, ret, buttons, reads, sgFrame, reply, thrState>>

\* The frame of a command that has returned is gone.
ClearCommand ==
    /\ cpc' = "none"
    /\ gbPort' = 0
    /\ loopI' = 0
    /\ ret' = 0
    /\ cmdRespLength' = 0
    /\ cmdResponse' = <<>>
    /\ buttons' = 0
    /\ reads' = {}
    /\ reply' = <<>>
    /\ card' = 0
    /\ strLen' = 0
    /\ gameRequest' = <<>>
    /\ topWritten' = 0
    /\ sentOn' = [p \in Ports |-> 0]
    /\ UNCHANGED <<hw, pc, port, epFrame, wfaFrame, ebFrame, wfaHist, epHist, pulseHist,
                   busHist, script, thrState>>

(* --------------------------- getButtonPress --------------------------- *)

CallGetButtonPress(p, b) ==
    /\ cpc = "none"
    /\ pc = "idle"
    /\ cpc' = "gb_select"
    /\ gbPort' = p
    /\ cmdResponse' = b
    /\ UNCHANGED <<hw, pc, port, epFrame, wfaFrame, ebFrame, wfaHist, epHist, pulseHist,
                   busHist, loopI, ret, cmdRespLength, buttons, reads, sgFrame, devState, thrState>>

\* Line 182: selectPort(port).
GbSelect ==
    /\ cpc = "gb_select"
    /\ pc = "idle"
    /\ StartSelectPort(gbPort)
    /\ cpc' = "gb_exchange"
    /\ UNCHANGED <<busHist, cmdFrame, sgFrame, devState, thrState>>

\* Lines 174-184: exchangePacket(ADDR_CONTROLLER, request, response, 4, 32).
GbExchange ==
    /\ cpc = "gb_exchange"
    /\ pc = "idle"
    /\ StartExchangePacket(ADDR_CONTROLLER, PollRequest, RESPONSE_SIZE, cmdResponse)
    /\ cpc' = "gb_decode"
    /\ UNCHANGED <<busHist, cmdFrame, sgFrame, devState, thrState>>

\* Faulty variant: the two state bytes are combined the other way round.
GbDecode_Swapped ==
    /\ cpc = "gb_decode"
    /\ pc = "idle"
    /\ IF cmdRespLength < 4
       THEN reads' = {} /\ buttons' = 0
       ELSE IF cmdResponse[1] # PAD_MARKER
       THEN reads' = {1} /\ buttons' = 0
       ELSE /\ reads' = {1, 2, 3}
            /\ buttons' = XorBits(OrBits(cmdResponse[3], cmdResponse[2] * 256, 0),
                                  2 ^ WordBits - 1, 0)
    /\ cpc' = "gb_done"
    /\ UNCHANGED <<hw, pc, port, epFrame, wfaFrame, ebFrame, wfaHist, epHist, pulseHist,
                   busHist, gbPort, loopI, ret, cmdRespLength, cmdResponse, sgFrame, devState, thrState>>

\* Lines 186-197: (response[2] | (response[3] << 8)) ^ 0xffff, or 0 when the
\* response is short or does not carry the marker.
GbDecode ==
    /\ cpc = "gb_decode"
    /\ pc = "idle"
    /\ IF cmdRespLength < 4
       THEN reads' = {} /\ buttons' = 0
       ELSE IF cmdResponse[1] # PAD_MARKER
       THEN reads' = {1} /\ buttons' = 0
       ELSE /\ reads' = {1, 2, 3}
            /\ buttons' = XorBits(OrBits(cmdResponse[2], cmdResponse[3] * 256, 0),
                                  2 ^ WordBits - 1, 0)
    /\ cpc' = "gb_done"
    /\ UNCHANGED <<hw, pc, port, epFrame, wfaFrame, ebFrame, wfaHist, epHist, pulseHist,
                   busHist, gbPort, loopI, ret, cmdRespLength, cmdResponse, sgFrame, devState, thrState>>

\* Line 197: the caller has taken the value.
GbReturn ==
    /\ cpc = "gb_done"
    /\ ClearCommand

(* -------------------------- checkMCPpresent --------------------------- *)

\* Lines 224-226: ret = 0, response = {0, 0, 0, 0, 0}.
CallCheckMCPpresent ==
    /\ cpc = "none"
    /\ pc = "idle"
    /\ cpc' = "mc_loop"
    /\ ret' = 0
    /\ loopI' = 0
    /\ cmdResponse' = [k \in 0 .. PING_SIZE - 1 |-> 0]
    /\ UNCHANGED <<hw, pc, port, epFrame, wfaFrame, ebFrame, wfaHist, epHist, pulseHist,
                   busHist, gbPort, cmdRespLength, buttons, reads, sgFrame, devState, thrState>>

\* Lines 228-230: for (i = 0; i < 2; i++) selectPort(i).
McLoop ==
    /\ cpc = "mc_loop"
    /\ pc = "idle"
    /\ IF loopI < 2
       THEN StartSelectPort(loopI) /\ cpc' = "mc_exchange"
       ELSE /\ cpc' = "mc_done"
            /\ UNCHANGED <<hw, pc, port, epFrame, wfaFrame, ebFrame, wfaHist, epHist,
                           pulseHist>>
    /\ UNCHANGED <<busHist, cmdFrame, sgFrame, devState, thrState>>

\* Line 231: exchangePacket(ADDR_MEMORY_CARD, request, response, 5, 5).
McExchange ==
    /\ cpc = "mc_exchange"
    /\ pc = "idle"
    /\ StartExchangePacket(ADDR_MEMORY_CARD, PingRequest, PING_SIZE, cmdResponse)
    /\ cpc' = "mc_decode"
    /\ UNCHANGED <<busHist, cmdFrame, sgFrame, devState, thrState>>

\* Faulty variant: the two bytes are tested whatever the length returned.
McDecode_NoLength ==
    /\ cpc = "mc_decode"
    /\ pc = "idle"
    /\ IF cmdResponse[2] # MCP_MARKER
       THEN reads' = {2} /\ UNCHANGED ret
       ELSE IF cmdResponse[3] # MCP_MARKER_END
       THEN reads' = {2, 3} /\ UNCHANGED ret
       ELSE reads' = {2, 3} /\ ret' = OrBits(ret, 2 ^ loopI, 0) % 256
    /\ loopI' = loopI + 1
    /\ cpc' = "mc_loop"
    /\ UNCHANGED <<hw, pc, port, epFrame, wfaFrame, ebFrame, wfaHist, epHist, pulseHist,
                   busHist, gbPort, cmdRespLength, cmdResponse, buttons, sgFrame, devState, thrState>>

\* Lines 233-236: respLength == 5 && response[2] == 0x27 && response[3] ==
\* 0xFF sets bit i of ret; then i++.
McDecode ==
    /\ cpc = "mc_decode"
    /\ pc = "idle"
    /\ IF cmdRespLength # PING_SIZE
       THEN reads' = {} /\ UNCHANGED ret
       ELSE IF cmdResponse[2] # MCP_MARKER
       THEN reads' = {2} /\ UNCHANGED ret
       ELSE IF cmdResponse[3] # MCP_MARKER_END
       THEN reads' = {2, 3} /\ UNCHANGED ret
       ELSE reads' = {2, 3} /\ ret' = OrBits(ret, 2 ^ loopI, 0) % 256
    /\ loopI' = loopI + 1
    /\ cpc' = "mc_loop"
    /\ UNCHANGED <<hw, pc, port, epFrame, wfaFrame, ebFrame, wfaHist, epHist, pulseHist,
                   busHist, gbPort, cmdRespLength, cmdResponse, buttons, sgFrame, devState, thrState>>

\* Line 239: return ret; the caller has taken the value.
McReturn ==
    /\ cpc = "mc_done"
    /\ ClearCommand

(* ----------------------------- sendGameID ----------------------------- *)

CMD_GAME_ID_SEND == 33

\* uint8_t request[64]
GAME_REQUEST_SIZE == 64

\* Longest name the file list holds (MAX_FILE_LENGTH).
MAX_FILE_LENGTH == 255

\* The k-th character of str: never NUL.
StrByte(k) == 97 + (k % 26)

\* Lengths of str: the shortest, the longest that fits the request buffer,
\* the first that does not, and the longest.
StrLens == {0, 1, GAME_REQUEST_SIZE - 4, GAME_REQUEST_SIZE - 3, MAX_FILE_LENGTH}

CardMasks == 0 .. 3

CallSendGameID(n, c) ==
    /\ cpc = "none"
    /\ pc = "idle"
    /\ cpc' = "sg_build"
    /\ strLen' = n
    /\ card' = c
    /\ UNCHANGED <<hw, pc, port, epFrame, wfaFrame, ebFrame, wfaHist, epHist, pulseHist,
                   busHist, cmdFrame, gameRequest, topWritten, sentOn, devState, thrState>>

(* Lines 243-249: length = strlen(str) + 1; request[0..2] are the command, *)
(* 0 and length (kept in 8 bits); strncpy stores the length bytes of str    *)
(* from request[3] on. A store past request[63] goes to whatever lies      *)
(* behind the array: the function either carries on, reading back what it  *)
(* stored, or is lost.                                                     *)
SgBuild ==
    /\ cpc = "sg_build"
    /\ gameRequest' = <<CMD_GAME_ID_SEND, 0, (strLen + 1) % 256>>
                         \o [k \in 1 .. strLen |-> StrByte(k)] \o <<0>>
    /\ topWritten' = 3 + strLen
    /\ loopI' = 0
    /\ IF 3 + strLen < GAME_REQUEST_SIZE
       THEN cpc' = "sg_loop"
       ELSE cpc' \in {"sg_loop", "crashed"}
    /\ UNCHANGED <<hw, pc, port, epFrame, wfaFrame, ebFrame, wfaHist, epHist, pulseHist,
                   busHist, gbPort, ret, cmdRespLength, cmdResponse, buttons, reads,
                   card, strLen, sentOn, devState, thrState>>

\* Faulty variant: the port is selected whatever the mask says.
SgLoop_AllPorts ==
    /\ cpc = "sg_loop"
    /\ pc = "idle"
    /\ IF loopI < 2
       THEN StartSelectPort(loopI) /\ cpc' = "sg_send"
       ELSE /\ cpc' = "sg_done"
            /\ UNCHANGED <<hw, pc, port, epFrame, wfaFrame, ebFrame, wfaHist, epHist,
                           pulseHist>>
    /\ UNCHANGED <<busHist, cmdFrame, sgFrame, devState, thrState>>

\* Lines 252-256: for (i = 0; i < 2; i++) if (card & (1 << i)) selectPort(i).
SgLoop ==
    /\ cpc = "sg_loop"
    /\ pc = "idle"
    /\ IF loopI < 2
       THEN IF Bit(card, loopI) = 1
            THEN StartSelectPort(loopI) /\ cpc' = "sg_send" /\ UNCHANGED loopI
            ELSE /\ loopI' = loopI + 1
                 /\ UNCHANGED <<cpc, hw, pc, port, epFrame, wfaFrame, ebFrame, wfaHist,
                                epHist, pulseHist>>
       ELSE /\ cpc' = "sg_done"
            /\ UNCHANGED <<loopI, hw, pc, port, epFrame, wfaFrame, ebFrame, wfaHist,
                           epHist, pulseHist>>
    /\ UNCHANGED <<busHist, gbPort, ret, cmdRespLength, cmdResponse, buttons, reads,
                   sgFrame, devState, thrState>>

\* Line 257: sendPacketNoAcknowledge(ADDR_MEMORY_CARD, request, length + 3).
SgSend ==
    /\ cpc = "sg_send"
    /\ pc = "idle"
    /\ StartSendPacket(ADDR_MEMORY_CARD, SubSeq(gameRequest, 1, strLen + 1 + 3))
    /\ cpc' = "sg_next"
    /\ UNCHANGED <<busHist, cmdFrame, sgFrame, devState, thrState>>

\* Line 220 seen from sendGameID.
CmdSnpReturn ==
    /\ pc = "snp_done"
    /\ cpc # "none"
    /\ pc' = "idle"
    /\ sentOn' = [sentOn EXCEPT ![ActivePort] = @ + Len(sent)]
    /\ script' = <<>>
    /\ ClearExchange
    /\ UNCHANGED <<busHist, cpc, cmdFrame, card, strLen, gameRequest, topWritten, reply, thrState>>

\* Line 252: i++.
SgNext ==
    /\ cpc = "sg_next"
    /\ pc = "idle"
    /\ loopI' = loopI + 1
    /\ cpc' = "sg_loop"
    /\ UNCHANGED <<hw, pc, port, epFrame, wfaFrame, ebFrame, wfaHist, epHist, pulseHist,
                   busHist, gbPort, ret, cmdRespLength, cmdResponse, buttons, reads,
                   sgFrame, devState, thrState>>

\* Line 260: sendGameID returns nothing.
SgReturn ==
    /\ cpc = "sg_done"
    /\ ClearCommand

NextCmd ==
    \/ \E p \in Ports, b \in StackBuffers : CallGetButtonPress(p, b)
    \/ GbSelect
    \/ GbExchange
    \/ GbDecode
    \/ GbReturn
    \/ CallCheckMCPpresent
    \/ McLoop
    \/ McExchange
    \/ McDecode
    \/ McReturn
    \/ \E n \in StrLens, c \in CardMasks : CallSendGameID(n, c)
    \/ SgBuild
    \/ SgLoop
    \/ SgSend
    \/ SgNext
    \/ SgReturn
    \/ SnpAssert
    \/ SnpAddress
    \/ SnpDrain
    \/ SnpLoop
    \/ SnpNext
    \/ SnpRelease
    \/ CmdSnpReturn
    \/ CmdEpReturn
    \/ SelectPort
    \/ EpAssert
    \/ EpAddress
    \/ EpAddrRet
    \/ EpDrain
    \/ EpLoop
    \/ EpStore
    \/ EpLoopRet
    \/ EpRelease
    \/ WfaAck
    \/ WfaDelay
    \/ WfaTimeout
    \/ EbWrite
    \/ EbRead
    \/ DevTransfer
    \/ Pulse

SpecCmd == Init /\ [][NextCmd]_vars

(* ------------- several callers serialized by a mutex ------------------ *)

\* The packets of a command, each with the port selected before it.
JobGetButtonPress(p) == <<[port |-> p, fn |-> "ep", addr |-> ADDR_CONTROLLER]>>

JobCheckMCPpresent ==
    [k \in 1 .. 2 |-> [port |-> k - 1, fn |-> "ep", addr |-> ADDR_MEMORY_CARD]]

SetBit(c, e) == Bit(c, e.port) = 1

JobSendGameID(c) ==
    SelectSeq([k \in 1 .. 2 |-> [port |-> k - 1, fn |-> "snp", addr |-> ADDR_MEMORY_CARD]],
              LAMBDA e : SetBit(c, e))

Jobs ==
    {JobGetButtonPress(p) : p \in Ports} \cup {JobCheckMCPpresent}
        \cup {JobSendGameID(c) : c \in CardMasks \ {0}}

\* A caller enters one of the commands.
ThreadStart(t, j) ==
    /\ thr[t].at = "idle"
    /\ thr' = [thr EXCEPT ![t] = [job |-> j, at |-> "select"]]
    /\ UNCHANGED <<hw, pc, port, epFrame, wfaFrame, ebFrame, wfaHist, epHist, pulseHist,
                   busHist, cpc, cmdFrame, sgFrame, devState, mutex, wide>>

\* The mutex is taken before the packet, or before selectPort when wide.
ThreadLock(t) ==
    /\ mutex = 0
    /\ thr[t].at = (IF wide THEN "select" ELSE "call")
    /\ mutex' = t
    /\ UNCHANGED <<hw, pc, port, epFrame, wfaFrame, ebFrame, wfaHist, epHist, pulseHist,
                   busHist, cpc, cmdFrame, sgFrame, devState, thr, wide>>

\* Faulty variant: selectPort is called without the mutex.
ThreadSelectPort_Unlocked(t) ==
    /\ thr[t].at = "select"
    /\ port' = Head(thr[t].job).port
    /\ ctrl' = IF Head(thr[t].job).port # 0 THEN ctrl \cup {SIO_CTRL_CS_PORT_2}
                                            ELSE ctrl \ {SIO_CTRL_CS_PORT_2}
    /\ thr' = [thr EXCEPT ![t].at = "call"]
    /\ UNCHANGED <<irq, tx, rx, ackOwed, plugged, pc, epFrame, wfaFrame, ebFrame, wfaHist,
                   epHist, pulseHist, busHist, cpc, cmdFrame, sgFrame, devState, mutex, wide>>

\* Lines 182, 230 and 256: the command calls selectPort, which sets or
\* clears the port bit of the shared register.
ThreadSelectPort(t) ==
    /\ thr[t].at = "select"
    /\ wide => mutex = t
    /\ port' = Head(thr[t].job).port
    /\ ctrl' = IF Head(thr[t].job).port # 0 THEN ctrl \cup {SIO_CTRL_CS_PORT_2}
                                            ELSE ctrl \ {SIO_CTRL_CS_PORT_2}
    /\ thr' = [thr EXCEPT ![t].at = "call"]
    /\ UNCHANGED <<irq, tx, rx, ackOwed, plugged, pc, epFrame, wfaFrame, ebFrame, wfaHist,
                   epHist, pulseHist, busHist, cpc, cmdFrame, sgFrame, devState, mutex, wide>>

\* Lines 183, 231 and 257: the packet, made by the holder of the mutex.
ThreadCall(t) ==
    /\ thr[t].at = "call"
    /\ mutex = t
    /\ pc = "idle"
    /\ IF Head(thr[t].job).fn = "ep"
       THEN StartExchangePacket(Head(thr[t].job).addr, BusRequest, Len(BusRequest),
                                FreshResponse)
       ELSE StartSendPacket(Head(thr[t].job).addr, BusRequest)
    /\ thr' = [thr EXCEPT ![t].at = "busy"]
    /\ UNCHANGED <<busHist, cpc, cmdFrame, sgFrame, devState, mutex, wide>>

\* The packet has returned: the mutex is released.
ThreadReturn(t) ==
    /\ thr[t].at = "busy"
    /\ pc \in {"ep_done", "snp_done"}
    /\ pc' = "idle"
    /\ ClearExchange
    /\ mutex' = 0
    /\ thr' = [thr EXCEPT ![t] = [job |-> Tail(thr[t].job),
                                  at |-> IF Len(thr[t].job) > 1 THEN "select" ELSE "idle"]]
    /\ UNCHANGED <<busHist, cpc, cmdFrame, sgFrame, devState, wide>>

\* A device on port 0 only; the mutex of either kind.
InitMutex ==
    /\ InitState
    /\ wide \in BOOLEAN
    /\ ~irq
    /\ plugged = [p \in Ports |-> p = 0]

NextMutex ==
    \/ \E t \in Threads, j \in Jobs : ThreadStart(t, j)
    \/ \E t \in Threads : ThreadLock(t)
    \/ \E t \in Threads : ThreadSelectPort(t)
    \/ \E t \in Threads : ThreadCall(t)
    \/ \E t \in Threads : ThreadReturn(t)
    \/ EpAssert
    \/ EpAddress
    \/ EpAddrRet
    \/ EpDrain
    \/ EpLoop
    \/ EpStore
    \/ EpLoopRet
    \/ EpRelease
    \/ SnpAssert
    \/ SnpAddress
    \/ SnpDrain
    \/ SnpLoop
    \/ SnpNext
    \/ SnpRelease
    \/ WfaAck
    \/ WfaDelay
    \/ WfaTimeout
    \/ EbWrite
    \/ EbRead
    \/ Transfer
    \/ Pulse

SpecMutex == InitMutex /\ [][NextMutex]_vars

(* ============================== claims ================================ *)

Min(a, b) == IF a <= b THEN a ELSE b

\* Checks a wait of t microseconds can make: ceil(t / 10), none for t <= 0.
MaxChecks(t) == IF t <= 0 THEN 0 ELSE (t + POLL_DELAY - 1) \div POLL_DELAY

InCall == pc \notin {"idle", "sp"}

\* C1: when the address phase wait observes no acknowledgment edge,
\* exchangePacket keeps respLength at 0, never enters exchangeByte and writes
\* no byte of the response buffer, up to and including its return.
C1_AbsentNoExchange ==
    addrAck = "timeout" =>
        /\ respLength = 0
        /\ pc \in {"ep_release", "ep_done"}
        /\ sent = <<>>
        /\ devOut = <<>>
        /\ writes = <<>>
        /\ response = FreshResponse

\* C1 witness: a probe with request and room for a response has returned from
\* an unplugged port.
C1_Witness ==
    /\ pc = "ep_done"
    /\ addrAck = "timeout"
    /\ ~plugged[ActivePort]
    /\ Len(request) = MaxReq
    /\ maxRespLength = MaxResp

\* C2: when every pulse of the device is seen by the wait that follows its
\* byte and the device made k pulses in the call, exchangePacket returns
\* min(k, maxRespLength) and response[i] is the byte the device shifted out in
\* the i-th exchange.
C2_AckCountIsLength ==
    (pc = "ep_done" /\ ~late) =>
        /\ respLength = Min(emitted, maxRespLength)
        /\ Len(devOut) = respLength
        /\ \A i \in 0 .. respLength - 1 : response[i] = devOut[i + 1]

\* C2 witness: the device pulsed once and then stayed silent, with room left.
C2_Witness ==
    /\ pc = "ep_done"
    /\ ~late
    /\ emitted = 1
    /\ respLength = 1
    /\ maxRespLength = 2
    /\ response[0] \in DevBytes

\* C3: throughout a call 0 <= respLength <= maxRespLength, the response
\* positions written are exactly 0 .. respLength - 1, once each in increasing
\* order, and every position from respLength on keeps its old content.
C3_LengthBoundsWrites ==
    InCall =>
        /\ 0 <= respLength
        /\ respLength <= maxRespLength
        /\ writes = [i \in 1 .. respLength |-> i - 1]
        /\ \A j \in BufIdx : j >= respLength => response[j] = STALE

\* C3 witness: a call has filled the response up to the maximum.
C3_Witness ==
    /\ pc = "ep_done"
    /\ maxRespLength = 2
    /\ respLength = 2
    /\ response[0] # STALE
    /\ response[1] # STALE

\* C4 as claimed: exchangePacket returns 0 if and only if the address phase
\* wait timed out.
C4_ZeroIffAbsent ==
    pc = "ep_done" => (respLength = 0 <=> addrAck = "timeout")

\* C4: exchangePacket returns 0 if and only if the address phase wait timed
\* out or maxRespLength is 0 or less; with maxRespLength >= 1 a device that
\* acknowledges the address never yields 0.
C4_ZeroIffAbsentOrNoRoom ==
    pc = "ep_done" =>
        (respLength = 0 <=> (addrAck = "timeout" \/ maxRespLength <= 0))

\* C4 witness: a device acknowledged the address of a call that has room for
\* a response, and the call returns a length above 0.
C4_Witness ==
    /\ pc = "ep_done"
    /\ addrAck = "acked"
    /\ maxRespLength >= 1
    /\ respLength >= 1

\* C5: the i-th exchange transmits request[i] while i < requestLength and 0
\* afterwards, and at the return the number of request bytes put on the bus is
\* min(requestLength, respLength).
C5_RequestThenZeroes ==
    /\ \A i \in 1 .. Len(sent) :
          /\ sent[i][1] = (IF i <= Len(request) THEN request[i] ELSE 0)
          /\ sent[i][2] = (i <= Len(request))
    /\ pc = "ep_done" =>
          /\ Len(sent) = respLength
          /\ Cardinality({i \in 1 .. Len(sent) : sent[i][2]})
                = Min(Len(request), respLength)

\* C5 witness: an empty request was exchanged with a present device: the
\* address phase and the loop ran and only zero bytes were sent.
C5_Witness ==
    /\ pc = "ep_done"
    /\ Len(request) = 0
    /\ addrAck = "acked"
    /\ respLength = 2
    /\ sent = << <<0, FALSE>>, <<0, FALSE>> >>

\* Every byte of the call, the address included, was acknowledged in time.
AckedAll == ~late /\ emitted = Len(sent) + 1

\* C6: against a device that acknowledges every byte in time and shifts out
\* in each exchange the byte it receives, a request of length
\* n <= maxRespLength is found again in response[0 .. n - 1].
C6_EchoRoundTrip ==
    (/\ pc = "ep_done"
     /\ AckedAll
     /\ echoed
     /\ Len(request) <= maxRespLength) =>
        \A i \in 1 .. Len(request) : response[i - 1] = request[i]

\* C6 witness: a two-byte request came back from an echoing device.
C6_Witness ==
    /\ pc = "ep_done"
    /\ AckedAll
    /\ echoed
    /\ Len(request) = 2
    /\ maxRespLength = 2
    /\ response[0] = request[1]
    /\ response[1] = request[2]

\* The events of one call in the order select, address, exchanges, deselect.
WellOrdered(ev) ==
    \A i \in 1 .. Len(ev) :
        /\ (i = 1) <=> (ev[i] = "select")
        /\ (i = 2) <=> (ev[i] = "address")
        /\ i >= 3 => ev[i] \in {"exchange", "deselect"}
        /\ ev[i] = "deselect" => i = Len(ev)

\* C7: in a call device-select is asserted, then the address is written, then
\* bytes are exchanged, then device-select is deasserted; a byte is written
\* to the channel only while device-select is asserted, and device-select is
\* deasserted whenever the call returns.
C7_SelectBracketsPacket ==
    /\ [](/\ WellOrdered(events)
          /\ (events # <<>> /\ events[Len(events)] # "deselect")
                => SIO_CTRL_DTR \in ctrl
          /\ pc \in {"ep_done", "idle"} => SIO_CTRL_DTR \notin ctrl
          /\ pc = "ep_done" => (Len(events) >= 3 /\ events[Len(events)] = "deselect"))
    /\ [][(tx' # tx /\ tx' # <<>>) => SIO_CTRL_DTR \in ctrl]_vars

\* C7 witness: a call that exchanged a byte and got a short response is
\* about to return.
C7_Witness ==
    /\ pc = "ep_done"
    /\ Len(events) = 4
    /\ respLength < maxRespLength
    /\ SIO_CTRL_DTR \notin ctrl

\* C8: selectPort(port) leaves the port it was given as the active one,
\* changes no bit of the control register but the port-select bit, and
\* changes nothing when that port was already active; outside selectPort the
\* active port is the last one selected.
C8_SelectPort ==
    /\ [](pc # "sp" => ActivePort = port)
    /\ [][pc = "sp" =>
            /\ ctrl' \ {SIO_CTRL_CS_PORT_2} = ctrl \ {SIO_CTRL_CS_PORT_2}
            /\ (ActivePort = port => ctrl' = ctrl)
            /\ ActivePort' = port]_vars

\* C8 witness: port 1 was selected (after reset port 0 is the active one) and
\* the channel enables are still set.
C8_Witness ==
    /\ pc = "idle"
    /\ port = 1
    /\ ActivePort = 1
    /\ {SIO_CTRL_TX_ENABLE, SIO_CTRL_RX_ENABLE, SIO_CTRL_DSR_IRQ_ENABLE} \subseteq ctrl

\* The checks and the result of the running waitForAcknowledge.
WaitWithinBudget ==
    /\ pc \in {"wfa", "wait_ret"} => checks <= MaxChecks(timeout0)
    /\ pc = "wfa" => timeout = timeout0 - POLL_DELAY * checks
    /\ pc = "wait_ret" =>
          /\ ack <=> sawSet
          /\ ~ack => (checks = MaxChecks(timeout0)
                      /\ POLL_DELAY * checks >= timeout0)

\* C9: waitForAcknowledge(timeout) always returns, after at most
\* ceil(timeout / 10) checks of the flag (none for timeout <= 0); each check
\* that finds the flag clear costs 10 microseconds of the timeout, it returns
\* true exactly when a check saw the flag set, and false only once the delays
\* add up to the timeout or more.
C9_WaitBounded ==
    /\ []WaitWithinBudget
    /\ (pc = "wfa") ~> (pc = "wait_ret")

\* C9 witness: a wait with a timeout that is no multiple of 10 has used all
\* its checks and returns false.
C9_Witness ==
    /\ pc = "wait_ret"
    /\ ~ack
    /\ timeout0 = 35
    /\ checks = 4

\* C10 as claimed: whenever waitForAcknowledge returns, the pending-edge
\* flag is clear.
C10_FlagClearAtReturn ==
    [][(pc = "wfa" /\ pc' # "wfa") => ~irq']_vars

\* C10: whenever waitForAcknowledge returns true the pending-edge flag is
\* clear at the return, and the calls that returned true never outnumber the
\* pulses made: a pulse is counted by at most one call.
C10_TrueReturnClearsLatch ==
    /\ [][(pc = "wfa" /\ pc' # "wfa" /\ ack') => ~irq']_vars
    /\ [](observed <= emitted)

\* C10 witness: a second pulse has been counted by a second call.
C10_Witness ==
    /\ pc = "wait_ret"
    /\ ack
    /\ ~irq
    /\ observed = 2
    /\ emitted = 2

InByte == pc \in {"eb_wait_tx", "eb_wait_rx"}

InSend ==
    \/ pc \in {"snp_assert", "snp_address", "snp_drain", "snp_loop", "snp_next",
               "snp_release", "snp_done"}
    \/ InByte /\ ebRet = "snp_next"

InPacket == InCall /\ ~InSend

\* What a complete sendPacketNoAcknowledge of n bytes does, in order.
SendEvents(n) ==
    <<"select", "address", "drain">> \o [i \in 1 .. n |-> "exchange"] \o <<"deselect">>

\* C11: sendPacketNoAcknowledge with a request of length n asserts DTR, writes
\* the address, drains the receive buffer, calls exchangeByte exactly n times
\* with request[0], ..., request[n-1] in this order, each followed by the
\* inter-byte delay, never enters waitForAcknowledge, and then releases DTR.
C11_SendPacketSequence ==
    InSend =>
        /\ wfaRet = "idle" /\ observed = 0 /\ addrAck = "none"
        /\ Len(events) <= Len(request) + 4
        /\ events = SubSeq(SendEvents(Len(request)), 1, Len(events))
        /\ Len(sent) <= Len(request)
        /\ \A i \in 1 .. Len(sent) : sent[i] = <<request[i], TRUE>>
        /\ Len(sent) = reqPos + (IF pc \in {"eb_wait_rx", "snp_next"} THEN 1 ELSE 0)
        /\ SIO_CTRL_DTR \in ctrl <=> pc \notin {"snp_assert", "snp_done"}
        /\ pc = "snp_done" =>
              /\ events = SendEvents(Len(request))
              /\ Len(sent) = Len(request)

\* C11 witness: a request of the largest length has been sent.
C11_Witness ==
    /\ pc = "snp_done"
    /\ Len(request) = MaxReq
    /\ Len(sent) = MaxReq
    /\ sent[MaxReq] = <<ReqByte(MaxReq), TRUE>>

\* C12 as claimed: whenever exchangeByte runs, an address phase wait on the
\* active port has returned true before, in this call or in an earlier one.
C12_ExchangeAfterAck ==
    InByte => (addrAck = "acked" \/ ActivePort \in ackedPorts)

\* C12: in exchangePacket every exchangeByte call is preceded by an address
\* phase acknowledgment observed in the same call, made by a device on the
\* active port; sendPacketNoAcknowledge calls exchangeByte without any
\* acknowledgment having been looked at.
C12_ExchangeAfterAckInPacket ==
    /\ (InByte /\ ebRet = "ep_store") =>
          (addrAck = "acked" /\ observed >= 1 /\ emitted >= 1 /\ plugged[ActivePort])
    /\ (InByte /\ ebRet = "snp_next") => (addrAck = "none" /\ observed = 0)

\* C12 witness: exchangePacket is in its second exchangeByte call.
C12_Witness ==
    /\ pc = "eb_wait_rx"
    /\ ebRet = "ep_store"
    /\ addrAck = "acked"
    /\ Len(sent) = 2

\* C17: exchangePacket resets the interrupt flag before it asserts DTR and
\* writes the address, so an edge latched before the call never makes the
\* address phase wait return true: every wait of the call that returned true
\* took a pulse the device made during this call.
C17_StaleEdgeNotPresence ==
    /\ pc = "ep_address" => (~irq /\ tx = <<>> /\ events = <<"select">>)
    /\ InPacket => observed <= emitted
    /\ (InPacket /\ addrAck = "acked") => (emitted >= 1 /\ plugged[ActivePort])

\* C17 witness: an edge was latched when the call began, and the address
\* phase wait of the call has timed out.
C17_Witness ==
    /\ pc = "ep_release"
    /\ staleEdge
    /\ addrAck = "timeout"
    /\ emitted = 0

Waits ==
    (IF \E i \in DOMAIN events : events[i] = "address" THEN 1 ELSE 0) + Len(writes)

BoundedWork ==
    InCall =>
        /\ Len(sent) <= maxRespLength
        /\ Waits <= maxRespLength + 1
        /\ pc = "ep_done" => (SIO_CTRL_DTR \notin ctrl /\ Waits = respLength + 1)

\* C16: whatever the acknowledgment line does, every exchangePacket call
\* releases DTR and returns after at most maxRespLength byte exchanges and
\* at most maxRespLength + 1 acknowledgment waits, provided the interface
\* completes every transfer written to it.
C16_PacketTerminates ==
    /\ []BoundedWork
    /\ (pc = "ep_assert") ~> (pc = "ep_done")

\* C16 witness: the call is inside exchangeByte with DTR asserted and can go
\* on only when the interface completes the transfer.
C16_Witness ==
    /\ pc = "eb_wait_rx"
    /\ tx # <<>>
    /\ rx = <<>>
    /\ SIO_CTRL_DTR \in ctrl
    /\ Len(sent) = maxRespLength
    /\ ~ENABLED EngineStep

\* C13: getButtonPress(port) selects the port, exchanges the 4-byte poll
\* request with room for 32 response bytes, and returns
\* (response[2] | (response[3] << 8)) ^ 0xFFFF when respLength >= 4 and
\* response[1] is 0x5A, and 0 in every other case; for the controller that
\* acknowledges exactly four bytes and replies FF 5A 12 ED it returns
\* (0x12 | (0xED << 8)) ^ 0xFFFF.
C13_ButtonsDecoded ==
    /\ (cpc = "gb_decode" /\ pc # "idle") =>
          /\ address = ADDR_CONTROLLER
          /\ request = PollRequest
          /\ reqLength + reqPos = 4
          /\ maxRespLength = 32
          /\ ActivePort = gbPort
    /\ cpc = "gb_done" =>
          buttons = IF cmdRespLength >= 4 /\ cmdResponse[1] = 90
                    THEN 65535 - (cmdResponse[2] + 256 * cmdResponse[3])
                    ELSE 0
    /\ (cpc = "gb_done" /\ reply = <<255, 90, 18, 237>> /\ cmdRespLength = 4) =>
          buttons = 65535 - (18 + 237 * 256)
    /\ (cpc = "gb_done" /\ (reply = <<>> \/ cmdRespLength < 4 \/ reply[2] # 90)) =>
          buttons = 0

\* C13 witness: the controller of the scenario has been polled and all four
\* of its pulses were seen.
C13_Witness ==
    /\ cpc = "gb_done"
    /\ reply = Pad4Reply
    /\ cmdRespLength = 4
    /\ buttons = 4845

\* C14: the decoding in getButtonPress and in checkMCPpresent reads response
\* only at indices below the respLength returned by the exchange of the same
\* iteration, so a result other than the neutral one always comes from bytes
\* the device sent in that exchange.
C14_ReadsWithinLength ==
    /\ cpc = "gb_done" =>
          /\ \A k \in reads : k < cmdRespLength
          /\ buttons # 0 =>
                /\ cmdRespLength >= 4
                /\ reply[2] = PAD_MARKER
                /\ buttons = 65535 - (reply[3] + 256 * reply[4])
    /\ (cpc \in {"mc_loop", "mc_done"} /\ loopI >= 1) =>
          /\ \A k \in reads : k < cmdRespLength
          /\ Bit(ret, loopI - 1) = 1 =>
                /\ cmdRespLength = PING_SIZE
                /\ reply[3] = MCP_MARKER
                /\ reply[4] = MCP_MARKER_END

\* C14 witness: the second iteration of checkMCPpresent got no response on
\* port 1 while the buffer still holds the reply of the card on port 0.
C14_Witness ==
    /\ cpc = "mc_loop"
    /\ loopI = 2
    /\ ret = 1
    /\ cmdRespLength = 0
    /\ cmdResponse[2] = MCP_MARKER
    /\ cmdResponse[3] = MCP_MARKER_END

InGameId == cpc \in {"sg_loop", "sg_send", "sg_next", "sg_done"}

\* C19 as claimed: for every str of length 0..255 and every card mask,
\* sendGameID writes request only at indices 0..63, stores strlen(str) + 1 in
\* request[2], and sends exactly strlen(str) + 4 bytes on each port whose bit
\* is set in card, after selecting it, and nothing on any other port.
C19_GameIdWithinBuffer ==
    InGameId =>
        /\ topWritten <= GAME_REQUEST_SIZE - 1
        /\ gameRequest[3] = strLen + 1
        /\ \A p \in Ports :
              /\ sentOn[p] \in {0, strLen + 4}
              /\ Bit(card, p) = 0 => sentOn[p] = 0
              /\ (Bit(card, p) = 1 /\ (loopI > p \/ cpc = "sg_done")) => sentOn[p] = strLen + 4
        /\ (InSend \/ pc = "snp_done") => (ActivePort = loopI /\ Bit(card, loopI) = 1)

\* C19 for the names that fit: with strlen(str) <= 60 the claim holds as stated.
C19_ShortNamesWithinBuffer ==
    strLen <= GAME_REQUEST_SIZE - 4 => C19_GameIdWithinBuffer

\* C19 witness: a name of 60 characters has been sent on both ports.
C19_Witness ==
    /\ cpc = "sg_done"
    /\ strLen = GAME_REQUEST_SIZE - 4
    /\ card = 3
    /\ sentOn = [p \in Ports |-> GAME_REQUEST_SIZE]

\* The packet a caller is making goes to the port that caller selected.
PacketOnSelectedPort ==
    \A t \in Threads :
        (thr[t].at = "busy" /\ SIO_CTRL_DTR \in ctrl) => ActivePort = Head(thr[t].job).port

\* C15 as claimed: with a mutex held for the duration of each exchangePacket
\* or sendPacketNoAcknowledge call, every packet is exchanged on the port its
\* caller selected with selectPort.
C15_PacketOnSelectedPort ==
    ~wide => PacketOnSelectedPort

\* C15: with a mutex that a caller takes before selectPort and holds until
\* the packet that follows has returned, every packet is exchanged on the
\* port its caller selected, and only the holder is inside a packet.
C15_SelectUnderMutex ==
    wide =>
        /\ PacketOnSelectedPort
        /\ \A t \in Threads : thr[t].at \in {"call", "busy"} => mutex = t
        /\ InCall => (mutex # 0 /\ thr[mutex].at = "busy")

\* C15 witness: caller 1 is exchanging a byte on port 0 under the mutex
\* while caller 2 waits to select port 1.
C15_Witness ==
    /\ wide
    /\ mutex = 1
    /\ thr[1].at = "busy"
    /\ pc = "eb_wait_rx"
    /\ ActivePort = 0
    /\ thr[2].at = "select"
    /\ Head(thr[2].job).port = 1

====
